---- MODULE Spec2Model ----
(***************************************************************************)
(* Presentation_Converter.py: a Streamlit page that asks a hosted model    *)
(* for presentation HTML, previews it, and exports a PDF with WeasyPrint   *)
(* or with ReportLab (create_pdf) from a JSON slide list.                  *)
(*                                                                         *)
(* Streamlit executes the whole script once per user event.  One script    *)
(* run is one action of this model; what survives a run is                 *)
(* st.session_state, the widget values and the files on disk.             *)
(*                                                                         *)
(* Text whose whitespace matters (the HTML) is a sequence of characters.   *)
(* Text whose wrapping matters (a bullet) is the sequence of the lengths   *)
(* of its words: <<3, 5>> stands for "xxx xxxxx", <<>> for "".             *)
(***************************************************************************)
EXTENDS Integers, Sequences, FiniteSets, TLC

VARIABLES
    session_state,   \* st.session_state: a function, DOMAIN \subseteq {"generated_html"}
    OPENAI_API_KEY,  \* TRUE iff the secret / environment variable is set (line 27)
    slide_data_raw,  \* value of the slide-data text area (line 207)
    files,           \* temporary PDF files that exist on disk
    run,             \* what the last script run received and did
    pdf_in,          \* create_pdf under test: its arguments
    pdf_out          \* create_pdf under test: its result

vars == <<session_state, OPENAI_API_KEY, slide_data_raw, files, run, pdf_in, pdf_out>>

(***************************************************************************)
(* Bounds of the model.                                                    *)
(***************************************************************************)
MaxLen == 2        \* longest output_text the model API returns
MaxLeaked == 1     \* most temporary files a failing os.remove leaves behind
MaxSlides == 2     \* most slides handed to create_pdf under test
MaxBullets == 2    \* most bullets of a slide handed to create_pdf under test

(***************************************************************************)
(* Python strings.                                                         *)
(***************************************************************************)
\* str.strip() with no argument removes the characters for which
\* str.isspace() holds; of the ASCII characters these are space, \t, \n,
\* \r, \f (0x0c), 0x0b and 0x1c..0x1f.  The texts of this model are ASCII.
IsSpace(ch) ==
    ch \in {" ", "\t", "\n", "\r", "\f", "", "", "", "", ""}

RECURSIVE lstrip(_)
lstrip(s) ==
    IF s = <<>> THEN <<>>
    ELSE IF IsSpace(Head(s)) THEN lstrip(Tail(s)) ELSE s

RECURSIVE rstrip(_)
rstrip(s) ==
    IF s = <<>> THEN <<>>
    ELSE IF IsSpace(s[Len(s)]) THEN rstrip(SubSeq(s, 1, Len(s) - 1)) ELSE s

\* variant of strip that leaves trailing whitespace
strip_lstrip_only(s) == lstrip(s)
\* str.strip(): leading and trailing whitespace removed
strip(s) == rstrip(lstrip(s))

\* "\n".join(parts)
RECURSIVE join(_)
join(parts) ==
    IF parts = <<>> THEN <<>>
    ELSE IF Len(parts) = 1 THEN parts[1]
    ELSE parts[1] \o <<"\n">> \o join(Tail(parts))

(***************************************************************************)
(* textwrap.wrap(f"• {bullet}", width=90): the number of lines.  The text  *)
(* is the word "•" followed by the words of the bullet.  wrap_from counts  *)
(* the lines the words ws need when the current line already holds cur_len *)
(* characters; a word longer than the width fills the rest of the current  *)
(* line and continues on the next ones (break_long_words).                 *)
(***************************************************************************)
WRAP_WIDTH == 90

RECURSIVE wrap_from(_, _, _)
wrap_from(ws, cur_len, width) ==
    IF ws = <<>> THEN (IF cur_len > 0 THEN 1 ELSE 0)
    ELSE LET w == Head(ws)
             sep == IF cur_len > 0 THEN 1 ELSE 0
         IN  IF cur_len + sep + w <= width
                 THEN wrap_from(Tail(ws), cur_len + sep + w, width)
             ELSE IF w > width /\ cur_len + sep <= width
                 THEN 1 + wrap_from(<<w - (width - cur_len - sep)>> \o Tail(ws), 0, width)
             ELSE 1 + wrap_from(ws, 0, width)

wrap(bullet) == wrap_from(<<1>> \o bullet, 0, WRAP_WIDTH)

(***************************************************************************)
(* create_pdf.  Lengths are in 1/1000 point.  A slide is a record          *)
(* [t, has_title, title, has_bullets, bullets]; t = "dict" for a dict, and *)
(* has_title / has_bullets say whether the key is present.                 *)
(***************************************************************************)
A4_HEIGHT == 841890     \* reportlab A4[1] = 297 mm = 841.8898 pt
INCH == 72000           \* reportlab.lib.units.inch = 72 pt
LINE_STEP == 14000      \* y -= 14
BULLET_GAP == 4000      \* y -= 4

SLIDE_TOP == A4_HEIGHT - (18 * INCH) \div 10    \* y = height - 1.8 * inch

Slide(has_title, title, has_bullets, bullets) ==
    [t |-> "dict", has_title |-> has_title, title |-> title,
     has_bullets |-> has_bullets, bullets |-> bullets]

\* the y positions at which the n wrapped lines of one bullet are drawn
line_ys(y, n) == [k \in 1..n |-> y - (k - 1) * LINE_STEP]

\* lines 60-65: the bullets of one slide, from cursor y; [lines, y]
RECURSIVE draw_bullets(_, _)
draw_bullets(bullets, y) ==
    IF bullets = <<>> THEN [lines |-> <<>>, y |-> y]
    ELSE LET n == wrap(Head(bullets))
             rest == draw_bullets(Tail(bullets), y - n * LINE_STEP - BULLET_GAP)
         IN  [lines |-> line_ys(y, n) \o rest.lines, y |-> rest.y]

\* variant of slide_page without line 58: the cursor goes on from where the
\* previous slide left it
slide_page_cursor_kept(slide, y0) ==
    LET d == draw_bullets(IF slide.has_bullets THEN slide.bullets ELSE <<>>, y0)
    IN  [kind |-> "slide",
         title |-> IF slide.has_title THEN slide.title ELSE "Untitled Slide",
         top |-> y0, lines |-> d.lines, y |-> d.y]
\* lines 51-67: one slide page; y0 is the value y still has from the previous
\* slide, which line 58 overwrites
slide_page(slide, y0) ==
    LET d == draw_bullets(IF slide.has_bullets THEN slide.bullets ELSE <<>>, SLIDE_TOP)
    IN  [kind |-> "slide",
         title |-> IF slide.has_title THEN slide.title ELSE "Untitled Slide",
         top |-> SLIDE_TOP, lines |-> d.lines, y |-> d.y]

\* lines 43-47: the title page
title_page(title) ==
    [kind |-> "title", title |-> title, top |-> 0, lines |-> <<>>, y |-> 0]

\* lines 50-67: the slide loop; y_prev is the cursor the previous slide left
RECURSIVE slide_pages(_, _)
slide_pages(items, y_prev) ==
    IF items = <<>> THEN [raised |-> FALSE, pages |-> <<>>]
    ELSE IF Head(items).t # "dict" THEN [raised |-> TRUE, pages |-> <<>>]
    ELSE LET p == slide_page(Head(items), y_prev)
             rest == slide_pages(Tail(items), p.y)
         IN  [raised |-> rest.raised, pages |-> <<p>> \o rest.pages]

\* create_pdf(title, slides, pdf_path): slides is any truthy JSON value
create_pdf(title, slides) ==
    IF slides.t # "list" THEN [raised |-> TRUE, pages |-> <<>>]
    ELSE LET r == slide_pages(slides.items, SLIDE_TOP)
         IN  IF r.raised THEN [raised |-> TRUE, pages |-> <<>>]
             ELSE [raised |-> FALSE, pages |-> <<title_page(title)>> \o r.pages]

(***************************************************************************)
(* The model API.  A response is [raises, has_output_text, output_text,    *)
(* output]: raises says that client.responses.create raised; output is the *)
(* list resp.output of items [type, is_str, text] (is_str = FALSE: the     *)
(* item's text attribute is not a string).                                 *)
(***************************************************************************)
MISSING_KEY_HTML ==
    <<"<!doctype html><html><head><meta charset='utf-8'><title>Missing API Key</title></head><body><h1>Missing OPENAI_API_KEY</h1></body></html>">>
PARSE_ERROR_HTML ==
    <<"<!doctype html><html><head><meta charset='utf-8'><title>Error</title></head><body><h1>Failed to parse OpenAI response</h1></body></html>">>

\* lines 121-124: the texts of the items of type "output_text"
RECURSIVE output_text_parts(_)
output_text_parts(output) ==
    IF output = <<>> THEN <<>>
    ELSE (IF Head(output).type = "output_text" THEN <<Head(output)>> ELSE <<>>)
         \o output_text_parts(Tail(output))

\* lines 80-127, after the call returned resp
generate_html_with_openai(client, resp) ==
    IF ~client THEN MISSING_KEY_HTML
    ELSE IF resp.has_output_text /\ resp.output_text # <<>>
        THEN strip(resp.output_text)
    ELSE LET parts == output_text_parts(resp.output)
         IN  IF \E i \in 1..Len(parts) : ~parts[i].is_str
                 THEN PARSE_ERROR_HTML
             ELSE strip(join([i \in 1..Len(parts) |-> parts[i].text]))

(***************************************************************************)
(* The slide-data text area and json.loads, on the inputs of the model.    *)
(* A JSON value is [t, n, items].                                          *)
(***************************************************************************)
JNull == [t |-> "null", n |-> 0, items |-> <<>>]
JInt(n) == [t |-> "int", n |-> n, items |-> <<>>]
JList(items) == [t |-> "list", n |-> Len(items), items |-> items]

RAW_BLANK == ""
RAW_SPACES == "   "
RAW_QUOTES == "[{'title': 'Slide 1', 'bullets': ['Point 1', 'Point 2']}]"
RAW_EMPTY_LIST == "[]"
RAW_NULL == "null"
RAW_FIVE == "5"
RAW_ONE_SLIDE == "[{\"title\": \"Slide 1\", \"bullets\": [\"Point 1\", \"Point 2\"]}]"
RAW_TWO_SLIDES == "[{\"bullets\": [\"Point A\"]}, {\"title\": \"Slide 2\"}]"

SlideInputs ==
    {RAW_BLANK, RAW_SPACES, RAW_QUOTES, RAW_EMPTY_LIST, RAW_NULL, RAW_FIVE,
     RAW_ONE_SLIDE, RAW_TWO_SLIDES}

\* slide_data_raw.strip() is empty
is_blank(raw) == raw \in {RAW_BLANK, RAW_SPACES}

\* json.loads(raw): [raised, val]
json_loads(raw) ==
    CASE raw = RAW_EMPTY_LIST -> [raised |-> FALSE, val |-> JList(<<>>)]
      [] raw = RAW_NULL -> [raised |-> FALSE, val |-> JNull]
      [] raw = RAW_FIVE -> [raised |-> FALSE, val |-> JInt(5)]
      [] raw = RAW_ONE_SLIDE ->
            [raised |-> FALSE,
             val |-> JList(<<Slide(TRUE, "Slide 1", TRUE, <<<<5, 1>>, <<5, 1>>>>)>>)]
      [] raw = RAW_TWO_SLIDES ->
            [raised |-> FALSE,
             val |-> JList(<<Slide(FALSE, "", TRUE, <<<<5, 1>>>>),
                             Slide(TRUE, "Slide 2", FALSE, <<>>)>>)]
      [] OTHER -> [raised |-> TRUE, val |-> JNull]

\* Python truth value of a JSON value
truthy(v) ==
    CASE v.t = "null" -> FALSE
      [] v.t = "int" -> v.n # 0
      [] OTHER -> v.n # 0

\* file_name.replace(".pdf", "")
FILE_NAMES == {"presentation_20260101_0900.pdf"}
replace_pdf(file_name) ==
    IF file_name = "presentation_20260101_0900.pdf" THEN "presentation_20260101_0900"
    ELSE file_name

(***************************************************************************)
(* The script, section by section.  A run's log lists, in order, the UI    *)
(* elements it emitted and the library calls it made.                      *)
(***************************************************************************)
NoResp == [raises |-> FALSE, has_output_text |-> FALSE, output_text |-> <<>>, output |-> <<>>]
NoPdf == [lib |-> "none", html |-> <<>>, title |-> "", pages |-> <<>>]
NoDownload == [offered |-> FALSE, data |-> NoPdf, file_name |-> ""]
NoSession == [k \in {} |-> <<>>]

\* st.session_state.get(k, default)
session_get(ss, k, default) == IF k \in DOMAIN ss THEN ss[k] ELSE default
\* st.session_state[k] = v
session_set(ss, k, v) == [x \in DOMAIN ss \cup {k} |-> IF x = k THEN v ELSE ss[x]]

\* variant of generate_handler that calls the API again after an empty result
generate_handler_retry_empty(ss, html0, key, generate_btn, resp) ==
    IF ~generate_btn
        THEN [html0 |-> html0, html_state |-> html0, session_state |-> ss, log |-> <<>>, aborted |-> FALSE]
    ELSE IF ~key
        THEN [html0 |-> html0, html_state |-> html0, session_state |-> ss,
              log |-> <<"st.error:missing_key">>, aborted |-> FALSE]
    ELSE IF resp.raises
        THEN [html0 |-> html0, html_state |-> html0, session_state |-> ss,
              log |-> <<"client.responses.create:raise">>, aborted |-> TRUE]
    ELSE LET h == generate_html_with_openai(key, resp)
         IN  [html0 |-> html0, html_state |-> h, session_state |-> session_set(ss, "generated_html", h),
              log |-> IF h = <<>>
                          THEN <<"client.responses.create", "client.responses.create">>
                          ELSE <<"client.responses.create">>,
              aborted |-> FALSE]
\* variant of generate_handler without the key check of line 155
generate_handler_no_key_check(ss, html0, key, generate_btn, resp) ==
    IF ~generate_btn
        THEN [html0 |-> html0, html_state |-> html0, session_state |-> ss, log |-> <<>>, aborted |-> FALSE]
    ELSE IF key /\ resp.raises
        THEN [html0 |-> html0, html_state |-> html0, session_state |-> ss,
              log |-> <<"client.responses.create:raise">>, aborted |-> TRUE]
    ELSE LET h == generate_html_with_openai(key, resp)
         IN  [html0 |-> html0, html_state |-> h, session_state |-> session_set(ss, "generated_html", h),
              log |-> IF key THEN <<"client.responses.create">> ELSE <<>>,
              aborted |-> FALSE]
\* variant of generate_handler that stores only a non-empty result
generate_handler_keep_nonempty(ss, html0, key, generate_btn, resp) ==
    IF ~generate_btn
        THEN [html0 |-> html0, html_state |-> html0, session_state |-> ss, log |-> <<>>, aborted |-> FALSE]
    ELSE IF ~key
        THEN [html0 |-> html0, html_state |-> html0, session_state |-> ss,
              log |-> <<"st.error:missing_key">>, aborted |-> FALSE]
    ELSE IF resp.raises
        THEN [html0 |-> html0, html_state |-> html0, session_state |-> ss,
              log |-> <<"client.responses.create:raise">>, aborted |-> TRUE]
    ELSE LET h == generate_html_with_openai(key, resp)
         IN  [html0 |-> html0, html_state |-> IF h = <<>> THEN html0 ELSE h,
              session_state |-> IF h = <<>> THEN ss ELSE session_set(ss, "generated_html", h),
              log |-> <<"client.responses.create">>, aborted |-> FALSE]
\* lines 154-160: the generate button's handler
generate_handler(ss, html0, key, generate_btn, resp) ==
    IF ~generate_btn
        THEN [html0 |-> html0, html_state |-> html0, session_state |-> ss, log |-> <<>>, aborted |-> FALSE]
    ELSE IF ~key
        THEN [html0 |-> html0, html_state |-> html0, session_state |-> ss,
              log |-> <<"st.error:missing_key">>, aborted |-> FALSE]
    ELSE IF resp.raises
        THEN [html0 |-> html0, html_state |-> html0, session_state |-> ss,
              log |-> <<"client.responses.create:raise">>, aborted |-> TRUE]
    ELSE LET h == generate_html_with_openai(key, resp)
         IN  [html0 |-> html0, html_state |-> h, session_state |-> session_set(ss, "generated_html", h),
              log |-> <<"client.responses.create">>, aborted |-> FALSE]

\* variant of html_gate that always shows the preview and the export controls
html_gate_open(html_state) == TRUE
\* line 162: if html_state
html_gate(html_state) == html_state # <<>>

\* variant of html_to_pdf_weasyprint that renders another text
html_to_pdf_weasyprint_other_text(html) ==
    [lib |-> "weasyprint", html |-> MISSING_KEY_HTML, title |-> "", pages |-> <<>>]
\* line 75: what WeasyPrint is handed and writes
html_to_pdf_weasyprint(html) ==
    [lib |-> "weasyprint", html |-> html, title |-> "", pages |-> <<>>]

\* tempfile.NamedTemporaryFile(delete=False): a name no existing file has
RECURSIVE fresh_from(_, _)
fresh_from(fs, n) == IF n \in fs THEN fresh_from(fs, n + 1) ELSE n
fresh_path(fs) == fresh_from(fs, 1)

(***************************************************************************)
(* lines 180-196 and 224-240: the try block and its except clause.         *)
(* fault names the step that raises: "tmp" (NamedTemporaryFile), "render"  *)
(* (the library call), "read" (open / f.read) or "none"; pdf is what the   *)
(* library writes and lib_raises says that the library call raises on this *)
(* input.  [log, created, download]                                        *)
(***************************************************************************)
\* variant of try_export that shows the success message before reading the bytes
try_export_success_first(lib, pdf, lib_raises, file_name, fault) ==
    IF fault = "tmp"
        THEN [log |-> <<"tempfile:raise", "st.error:render_failed">>,
              created |-> FALSE, download |-> NoDownload]
    ELSE IF fault = "render" \/ lib_raises
        THEN [log |-> <<"tempfile", lib \o ":raise", "st.error:render_failed">>,
              created |-> TRUE, download |-> NoDownload]
    ELSE IF fault = "read"
        THEN [log |-> <<"tempfile", lib, "st.success", "open.read:raise",
                        "st.error:render_failed">>,
              created |-> TRUE, download |-> NoDownload]
    ELSE [log |-> <<"tempfile", lib, "open.read", "st.success", "st.download_button">>,
          created |-> TRUE,
          download |-> [offered |-> TRUE, data |-> pdf, file_name |-> file_name]]
try_export(lib, pdf, lib_raises, file_name, fault) ==
    IF fault = "tmp"
        THEN [log |-> <<"tempfile:raise", "st.error:render_failed">>,
              created |-> FALSE, download |-> NoDownload]
    ELSE IF fault = "render" \/ lib_raises
        THEN [log |-> <<"tempfile", lib \o ":raise", "st.error:render_failed">>,
              created |-> TRUE, download |-> NoDownload]
    ELSE IF fault = "read"
        THEN [log |-> <<"tempfile", lib, "open.read:raise", "st.error:render_failed">>,
              created |-> TRUE, download |-> NoDownload]
    ELSE [log |-> <<"tempfile", lib, "open.read", "st.success", "st.download_button">>,
          created |-> TRUE,
          download |-> [offered |-> TRUE, data |-> pdf, file_name |-> file_name]]

(***************************************************************************)
(* lines 197-202 and 241-246: the finally block.  created = FALSE: tmp_path *)
(* was never bound, os.path.exists(tmp_path) raises NameError, swallowed.  *)
(* rm_fault: os.remove raises, swallowed.  [log, files]                    *)
(***************************************************************************)
\* variant of finally_cleanup that is skipped when the try block failed
finally_cleanup_on_success_only(created, tmp_path, fs, failed, rm_fault) ==
    IF ~created THEN [log |-> <<"NameError:swallowed">>, files |-> fs]
    ELSE IF failed THEN [log |-> <<>>, files |-> fs \cup {tmp_path}]
    ELSE IF rm_fault
        THEN [log |-> <<"os.remove:raise:swallowed">>, files |-> fs \cup {tmp_path}]
    ELSE [log |-> <<"os.remove">>, files |-> fs \ {tmp_path}]
finally_cleanup(created, tmp_path, fs, failed, rm_fault) ==
    IF ~created THEN [log |-> <<"NameError:swallowed">>, files |-> fs]
    ELSE IF rm_fault
        THEN [log |-> <<"os.remove:raise:swallowed">>, files |-> fs \cup {tmp_path}]
    ELSE [log |-> <<"os.remove">>, files |-> fs \ {tmp_path}]

NoExport(fs) ==
    [log |-> <<>>, files |-> fs, calls |-> <<>>, download |-> NoDownload,
     tmp_path |-> 0, tmp_created |-> FALSE]

\* what one export did: t is the try block's outcome, f the finally block's
export_result(call, tmp_path, t, f) ==
    [log |-> t.log \o f.log, files |-> f.files,
     calls |-> IF t.created THEN <<call>> ELSE <<>>,
     download |-> t.download,
     tmp_path |-> IF t.created THEN tmp_path ELSE 0,
     tmp_created |-> t.created]

export_finally(call, tmp_path, fs, rm_fault, t) ==
    export_result(call, tmp_path, t,
        finally_cleanup(t.created, tmp_path, fs, ~t.download.offered, rm_fault))

\* one export: try / except / finally around one library call
export(lib, call, pdf, lib_raises, file_name, fs, fault, rm_fault) ==
    export_finally(call, fresh_path(fs), fs, rm_fault,
        try_export(lib, pdf, lib_raises, file_name, fault))

\* lines 178-202: the WeasyPrint export button
export_weasyprint(clicked, html_state, file_name, fs, fault, rm_fault) ==
    IF ~clicked THEN NoExport(fs)
    ELSE LET pdf == html_to_pdf_weasyprint(html_state)
         IN  export("weasyprint", [lib |-> "weasyprint", html |-> pdf.html,
                                   title |-> "", slides |-> JNull],
                    pdf, FALSE, file_name, fs, fault, rm_fault)

\* variant of parse_slides that falls back to a sample slide on invalid JSON
parse_slides_sample_on_error(raw) ==
    IF is_blank(raw) THEN [slides_for_pdf |-> JList(<<>>), log |-> <<>>]
    ELSE LET r == json_loads(raw)
         IN  IF r.raised
                 THEN [slides_for_pdf |-> JList(<<Slide(TRUE, "Slide 1", FALSE, <<>>)>>),
                       log |-> <<"st.error:invalid_json">>]
             ELSE [slides_for_pdf |-> r.val, log |-> <<>>]
\* lines 213-218: the slide list of this run; [slides_for_pdf, log]
parse_slides(raw) ==
    IF is_blank(raw) THEN [slides_for_pdf |-> JList(<<>>), log |-> <<>>]
    ELSE LET r == json_loads(raw)
         IN  IF r.raised
                 THEN [slides_for_pdf |-> JList(<<>>), log |-> <<"st.error:invalid_json">>]
             ELSE [slides_for_pdf |-> r.val, log |-> <<>>]

\* lines 223-246: the ReportLab export; r is what create_pdf does on the slides
export_create_pdf(title, slides_for_pdf, r, file_name, fs, fault, rm_fault) ==
    export("create_pdf",
           [lib |-> "create_pdf", html |-> <<>>, title |-> title, slides |-> slides_for_pdf],
           [lib |-> "create_pdf", html |-> <<>>, title |-> title, pages |-> r.pages],
           r.raised, file_name, fs, fault, rm_fault)

\* lines 220-246: the ReportLab export button
export_reportlab(clicked, slides_for_pdf, file_name, fs, fault, rm_fault) ==
    IF ~clicked THEN NoExport(fs)
    ELSE IF ~truthy(slides_for_pdf)
        THEN [NoExport(fs) EXCEPT !.log = <<"st.error:no_slides">>]
    ELSE export_create_pdf(replace_pdf(file_name), slides_for_pdf,
                           create_pdf(replace_pdf(file_name), slides_for_pdf),
                           file_name, fs, fault, rm_fault)

(***************************************************************************)
(* lines 21-249: one run of the script.  in = [click, resp, file_name,     *)
(* fault, rm_fault]; click names the button whose click caused the run     *)
(* ("none": a rerun without a button).  [session_state, files, run]        *)
(***************************************************************************)
\* lines 27-29 and 134-148: the key warning and the left column
page_head(key) ==
    (IF ~key THEN <<"st.warning:no_key">> ELSE <<>>) \o <<"st.button:generate">>

\* the record of a run that went no further than the generate handler g
run_record(key, in, g) ==
    [click |-> in.click, key |-> key, resp |-> in.resp,
     html0 |-> g.html0, html_state |-> g.html_state,
     log |-> page_head(key) \o g.log, calls |-> <<>>, download |-> NoDownload,
     slides_for_pdf |-> JList(<<>>),
     tmp_path |-> 0, tmp_created |-> FALSE,
     controls |-> FALSE, aborted |-> g.aborted]

\* lines 163-246 done: w the WeasyPrint export, p the slide list, r the ReportLab export
preview_and_export(key, in, g, w, p, r) ==
    [session_state |-> g.session_state, files |-> r.files,
     run |-> [run_record(key, in, g) EXCEPT
         !.log = page_head(key) \o g.log \o <<"st.html", "st.button:weasyprint">>
                 \o w.log \o <<"st.text_area:slides">> \o p.log
                 \o <<"st.button:reportlab">> \o r.log,
         !.calls = w.calls \o r.calls,
         !.download = IF w.download.offered THEN w.download ELSE r.download,
         !.slides_for_pdf = p.slides_for_pdf,
         !.tmp_path = IF w.tmp_created THEN w.tmp_path ELSE r.tmp_path,
         !.tmp_created = w.tmp_created \/ r.tmp_created,
         !.controls = TRUE]]

\* lines 204-246, after the WeasyPrint export w and the parse p of the text area
reportlab_section(key, in, g, w, p) ==
    preview_and_export(key, in, g, w, p,
        export_reportlab(in.click = "reportlab", p.slides_for_pdf, in.file_name,
                         w.files, in.fault, in.rm_fault))

\* lines 162-249, after the generate handler g
right_column(key, raw, fs, in, g) ==
    IF g.aborted
        THEN [session_state |-> g.session_state, files |-> fs,
              run |-> run_record(key, in, g)]
    ELSE IF html_gate(g.html_state)
        THEN reportlab_section(key, in, g,
                 export_weasyprint(in.click = "weasyprint", g.html_state, in.file_name,
                                   fs, in.fault, in.rm_fault),
                 parse_slides(raw))
    ELSE [session_state |-> g.session_state, files |-> fs,
          run |-> [run_record(key, in, g) EXCEPT
                       !.log = page_head(key) \o g.log \o <<"st.info">>]]

Script(ss, key, raw, fs, in) ==
    right_column(key, raw, fs, in,
        generate_handler(ss, session_get(ss, "generated_html", <<>>), key,
                         in.click = "generate", in.resp))

(***************************************************************************)
(* Inputs of the runs.                                                     *)
(***************************************************************************)
TextChars == {"a", " ", "\r"}
Texts == UNION {[1..k -> TextChars] : k \in 0..MaxLen}

\* resp.output: no item, a message item (what the API sends), items of type
\* "output_text", and an item whose text is not a string
ItemText == [type |-> "output_text", is_str |-> TRUE, text |-> <<"a", " ">>]
ItemMessage == [type |-> "message", is_str |-> TRUE, text |-> <<"b">>]
ItemNoStr == [type |-> "output_text", is_str |-> FALSE, text |-> <<>>]
Outputs ==
    {<<>>, <<ItemMessage>>, <<ItemText>>, <<ItemText, ItemMessage, ItemText>>,
     <<ItemText, ItemNoStr>>}

Responses ==
    {[NoResp EXCEPT !.raises = TRUE]}
    \cup {[raises |-> FALSE, has_output_text |-> TRUE, output_text |-> t, output |-> <<>>] :
             t \in Texts \ {<<>>}}
    \cup {[raises |-> FALSE, has_output_text |-> TRUE, output_text |-> <<>>, output |-> <<>>]}
    \cup {[raises |-> FALSE, has_output_text |-> FALSE, output_text |-> <<>>, output |-> o] :
             o \in Outputs}

Faults == {"none", "tmp", "render", "read"}

Input(click, resp, file_name, fault, rm_fault) ==
    [click |-> click, resp |-> resp, file_name |-> file_name,
     fault |-> fault, rm_fault |-> rm_fault]
Rerun == Input("none", NoResp, "", "none", FALSE)

NoPdfIn == [title |-> "", slides |-> JList(<<>>)]
NoPdfOut == [done |-> FALSE, raised |-> FALSE, pages |-> <<>>]

(***************************************************************************)
(* The session: Init is the page as the first script run leaves it.        *)
(***************************************************************************)
Init ==
    /\ OPENAI_API_KEY \in BOOLEAN
    /\ session_state = NoSession
    /\ slide_data_raw = RAW_BLANK
    /\ files = {}
    /\ run = Script(NoSession, OPENAI_API_KEY, RAW_BLANK, {}, Rerun).run
    /\ pdf_in = NoPdfIn
    /\ pdf_out = NoPdfOut

\* One script run.  A text area that the run does not render loses its value.
Finish(key, raw, in, r) ==
    /\ in.rm_fault => Cardinality(files) < MaxLeaked
    /\ session_state' = r.session_state
    /\ files' = r.files
    /\ run' = r.run
    /\ OPENAI_API_KEY' = key
    /\ slide_data_raw' = IF r.run.controls THEN raw ELSE RAW_BLANK
    /\ UNCHANGED <<pdf_in, pdf_out>>

Run(key, raw, in) == Finish(key, raw, in, Script(session_state, key, raw, files, in))

\* a rerun without a click
RunRerun ==
    /\ Run(OPENAI_API_KEY, slide_data_raw, Rerun)

\* a rerun after the secret was set or removed (line 27 reads it in every run)
RunSecretsChanged ==
    /\ Run(~OPENAI_API_KEY, slide_data_raw, Rerun)

\* the user edits the slide-data text area
RunEditSlides ==
    /\ run.controls
    /\ \E raw \in SlideInputs \ {slide_data_raw} : Run(OPENAI_API_KEY, raw, Rerun)

\* click on "Generate HTML with OpenAI"
RunGenerate ==
    /\ \E i \in 1..Len(run.log) : run.log[i] = "st.button:generate"
    /\ \E resp \in Responses :
        Run(OPENAI_API_KEY, slide_data_raw, Input("generate", resp, "", "none", FALSE))

\* click on "Export to PDF (WeasyPrint)"
RunExportWeasyPrint ==
    /\ run.controls
    /\ \E file_name \in FILE_NAMES, fault \in Faults, rm_fault \in BOOLEAN :
        Run(OPENAI_API_KEY, slide_data_raw,
            Input("weasyprint", NoResp, file_name, fault, rm_fault))

\* click on "Export to PDF (ReportLab)"
RunExportReportLab ==
    /\ run.controls
    /\ \E file_name \in FILE_NAMES, fault \in Faults, rm_fault \in BOOLEAN :
        Run(OPENAI_API_KEY, slide_data_raw,
            Input("reportlab", NoResp, file_name, fault, rm_fault))

Next ==
    \/ RunRerun
    \/ RunSecretsChanged
    \/ RunEditSlides
    \/ RunGenerate
    \/ RunExportWeasyPrint
    \/ RunExportReportLab

Spec == Init /\ [][Next]_vars

(***************************************************************************)
(* create_pdf on its own: Init draws the arguments, the action applies it. *)
(***************************************************************************)
BulletKinds == {<<44, 44>>, <<4500>>}
BulletLists == UNION {[1..k -> BulletKinds] : k \in 0..MaxBullets}
\* a slide without keys, with a title only, with an empty bullet list only, and
\* with a title and bullets
SlideDicts ==
    {Slide(FALSE, "", FALSE, <<>>), Slide(TRUE, "S", FALSE, <<>>), Slide(FALSE, "", TRUE, <<>>)}
    \cup {Slide(TRUE, "S", TRUE, b) : b \in BulletLists \ {<<>>}}
SlideLists == UNION {[1..k -> SlideDicts] : k \in 0..MaxSlides}

InitPdf ==
    /\ OPENAI_API_KEY = TRUE
    /\ session_state = NoSession
    /\ slide_data_raw = RAW_BLANK
    /\ files = {}
    /\ run = Script(NoSession, TRUE, RAW_BLANK, {}, Rerun).run
    /\ pdf_in \in {[title |-> "deck", slides |-> JList(l)] : l \in SlideLists}
    /\ pdf_out = NoPdfOut

ApplyCreatePdf ==
    /\ ~pdf_out.done
    /\ LET r == create_pdf(pdf_in.title, pdf_in.slides)
       IN  pdf_out' = [done |-> TRUE, raised |-> r.raised, pages |-> r.pages]
    /\ UNCHANGED <<session_state, OPENAI_API_KEY, slide_data_raw, files, run, pdf_in>>

NextPdf == ApplyCreatePdf

SpecPdf == InitPdf /\ [][NextPdf]_vars

(***************************************************************************)
(* Reading a state: the last run's log and the stored HTML.                *)
(***************************************************************************)
Has(log, e) == \E i \in 1..Len(log) : log[i] = e
Count(log, e) == Cardinality({i \in 1..Len(log) : log[i] = e})
Before(log, a, b) == \E i, j \in 1..Len(log) : i < j /\ log[i] = a /\ log[j] = b

Stored == "generated_html" \in DOMAIN session_state
StoredHtml == IF Stored THEN session_state["generated_html"] ELSE <<>>

ExportClicked == run.click \in {"weasyprint", "reportlab"}
GenerateReturned == run.click = "generate" /\ run.key /\ ~run.resp.raises
ApiCalls ==
    Count(run.log, "client.responses.create")
    + Count(run.log, "client.responses.create:raise")
ExportControlsShown ==
    \/ run.controls
    \/ Has(run.log, "st.button:weasyprint")
    \/ Has(run.log, "st.button:reportlab")
ExportFailed ==
    \/ Has(run.log, "tempfile:raise")
    \/ Has(run.log, "weasyprint:raise")
    \/ Has(run.log, "create_pdf:raise")
    \/ Has(run.log, "open.read:raise")
LibraryCalls ==
    Count(run.log, "weasyprint") + Count(run.log, "weasyprint:raise")
    + Count(run.log, "create_pdf") + Count(run.log, "create_pdf:raise")

(***************************************************************************)
(* C1.  As claimed: an export happens only in a run that holds a non-empty *)
(* generated HTML, stored by an earlier generate click; and while the held *)
(* HTML is empty no export control is shown and the info hint is shown.    *)
(***************************************************************************)
C1_Original ==
    /\ ExportClicked => run.html_state # <<>> /\ Stored /\ StoredHtml = run.html_state
    /\ run.html_state = <<>> =>
          ~ExportControlsShown /\ run.calls = <<>> /\ Has(run.log, "st.info")

\* C1, amended: an export happens only in a run that holds a non-empty generated
\* HTML, stored by an earlier generate click; while the held HTML is empty no
\* export control is shown, and the info hint is shown in every run that the
\* API call does not abort (an aborted run shows neither hint nor controls).
C1_ExportNeedsHtml ==
    /\ ExportClicked => run.html_state # <<>> /\ Stored /\ StoredHtml = run.html_state
    /\ run.html_state = <<>> =>
          /\ ~ExportControlsShown /\ run.calls = <<>>
          /\ Has(run.log, "st.info") <=> ~run.aborted
    /\ run.aborted => ~ExportControlsShown /\ ~Has(run.log, "st.info")

C1_Witness ==
    /\ run.click = "weasyprint" /\ run.download.offered
    /\ run.html_state # <<>>

(***************************************************************************)
(* C2.  A run makes one call to the model API when the generate button was *)
(* clicked and a key is configured, whatever the call returns (no retry on *)
(* an empty or failed response), and no call otherwise.                    *)
(***************************************************************************)
C2_OneApiCallPerClick ==
    ApiCalls = IF run.click = "generate" /\ run.key THEN 1 ELSE 0

C2_Witness ==
    /\ GenerateReturned /\ run.html_state = <<>> /\ ApiCalls = 1

(***************************************************************************)
(* C3.  As claimed: the stored string is, character for character, the     *)
(* output_text the API returned.                                           *)
(***************************************************************************)
UsesOutputText == run.resp.has_output_text /\ run.resp.output_text # <<>>

C3_Original ==
    (GenerateReturned /\ UsesOutputText) =>
        Stored /\ StoredHtml = run.resp.output_text

\* s is raw without its leading and trailing whitespace
Trimmed(raw, s) ==
    \E i \in 0..Len(raw), j \in 0..Len(raw) :
        /\ i <= j
        /\ s = SubSeq(raw, i + 1, j)
        /\ \A k \in 1..i : IsSpace(raw[k])
        /\ \A k \in (j + 1)..Len(raw) : IsSpace(raw[k])
        /\ s # <<>> => ~IsSpace(s[1]) /\ ~IsSpace(s[Len(s)])

\* the text of the response: output_text, or else the output_text items joined
ReturnedText ==
    IF UsesOutputText THEN run.resp.output_text
    ELSE LET parts == output_text_parts(run.resp.output)
         IN  join([i \in 1..Len(parts) |-> parts[i].text])
TextIsReadable ==
    UsesOutputText
    \/ \A i \in 1..Len(run.resp.output) :
          run.resp.output[i].type = "output_text" => run.resp.output[i].is_str

\* C3, amended: the stored string is the returned text with its leading and
\* trailing whitespace removed and otherwise character for character; the string
\* shown in the preview and handed to WeasyPrint is the stored string.
C3_StoredIsTrimmedText ==
    /\ GenerateReturned =>
          /\ Stored /\ StoredHtml = run.html_state
          /\ TextIsReadable => Trimmed(ReturnedText, StoredHtml)
    /\ Has(run.log, "st.html") => run.html_state = StoredHtml
    /\ \A i \in 1..Len(run.calls) :
          run.calls[i].lib = "weasyprint" => run.calls[i].html = StoredHtml

C3_Witness ==
    /\ GenerateReturned /\ run.resp.output_text = <<"a", "\r">>
    /\ StoredHtml = <<"a">> /\ Has(run.log, "st.html")

(***************************************************************************)
(* C4.  As claimed: a run invokes at most one PDF library, at most once,   *)
(* and the library's input is the held generated HTML string.             *)
(***************************************************************************)
C4_Original ==
    /\ Len(run.calls) <= 1 /\ LibraryCalls <= 1
    /\ \A i \in 1..Len(run.calls) : run.calls[i].html = run.html_state

\* C4, amended: a run invokes at most one PDF library, at most once, and only
\* for a click on that library's button; WeasyPrint's input is the held
\* generated HTML string, create_pdf's input is the file name without ".pdf"
\* and the slide list parsed from the slide-data text area, not the HTML.
C4_OneBackendPerRun ==
    /\ Len(run.calls) <= 1 /\ LibraryCalls = Len(run.calls)
    /\ \A i \in 1..Len(run.calls) :
          LET c == run.calls[i]
          IN  /\ c.lib = "weasyprint" =>
                    /\ run.click = "weasyprint"
                    /\ c.html = run.html_state /\ c.html = StoredHtml /\ c.html # <<>>
              /\ c.lib = "create_pdf" =>
                    /\ run.click = "reportlab"
                    /\ c.html = <<>>
                    /\ c.slides = run.slides_for_pdf
                    /\ slide_data_raw \in {RAW_FIVE, RAW_ONE_SLIDE, RAW_TWO_SLIDES}
                    /\ c.title = "presentation_20260101_0900"
              /\ c.lib \in {"weasyprint", "create_pdf"}

C4_Witness ==
    /\ run.click = "weasyprint" /\ Len(run.calls) = 1
    /\ run.calls[1].html = StoredHtml /\ StoredHtml # <<>>
    /\ run.download.data.html = StoredHtml

(***************************************************************************)
(* C5.  session_state changes only in a run where the generate button was  *)
(* clicked, a key is configured and the API call returned; every other run *)
(* (exports that succeed or fail, a generate click without a key or whose  *)
(* call raises, reruns) leaves it as it was.                               *)
(***************************************************************************)
C5_WrittenOnlyByGenerate ==
    [][session_state' # session_state =>
          /\ run'.click = "generate" /\ run'.key /\ ~run'.resp.raises
          /\ DOMAIN session_state' = {"generated_html"}
          /\ session_state'["generated_html"] = run'.html_state]_vars

C5_Witness ==
    /\ Stored /\ StoredHtml # <<>>
    /\ run.click = "reportlab" /\ ExportFailed
    /\ run.html0 = StoredHtml

(***************************************************************************)
(* C6.  An exception raised while creating the temporary file, in the PDF  *)
(* library or while reading the bytes back is shown as a "Failed to render *)
(* PDF" error: that run shows no success message and no download button    *)
(* and goes on to the end of the script; a download is offered only when   *)
(* rendering and reading both succeeded.                                   *)
(***************************************************************************)
C6_ExportErrorsCaught ==
    /\ ExportFailed =>
          /\ Count(run.log, "st.error:render_failed") = 1
          /\ ~Has(run.log, "st.success") /\ ~Has(run.log, "st.download_button")
          /\ ~run.download.offered
          /\ ~run.aborted /\ Has(run.log, "st.button:reportlab")
    /\ (run.download.offered \/ Has(run.log, "st.download_button")) =>
          /\ ~ExportFailed /\ ~Has(run.log, "st.error:render_failed")
          /\ run.download.offered /\ Has(run.log, "st.success")
          /\ \/ Before(run.log, "weasyprint", "open.read")
             \/ Before(run.log, "create_pdf", "open.read")
          /\ Before(run.log, "open.read", "st.download_button")

C6_Witness ==
    /\ run.click = "weasyprint" /\ Has(run.log, "open.read:raise")
    /\ Has(run.log, "st.error:render_failed")

(***************************************************************************)
(* C7.  As claimed: at the end of a run that created a temporary file the  *)
(* file no longer exists; the bytes are read before the file is removed; a *)
(* failing cleanup shows no error.                                         *)
(***************************************************************************)
C7_Original ==
    run.tmp_created =>
        /\ run.tmp_path \notin files
        /\ run.download.offered => Before(run.log, "open.read", "os.remove")
        /\ Count(run.log, "st.error:render_failed") = (IF ExportFailed THEN 1 ELSE 0)

\* C7, amended: every run that created a temporary file tries once, at the end
\* of the export, to remove it, whether the export succeeded or failed; the
\* file no longer exists unless that os.remove itself raised, and then the
\* failure is swallowed (no error is shown) and the file stays; on the success
\* path the bytes are read before the removal is tried.
C7_CleanupOnEveryPath ==
    /\ run.tmp_created =>
          /\ Count(run.log, "os.remove") + Count(run.log, "os.remove:raise:swallowed") = 1
          /\ run.tmp_path \in files <=> Has(run.log, "os.remove:raise:swallowed")
          /\ run.download.offered =>
                \/ Before(run.log, "open.read", "os.remove")
                \/ Before(run.log, "open.read", "os.remove:raise:swallowed")
          /\ Count(run.log, "st.error:render_failed") = (IF ExportFailed THEN 1 ELSE 0)
          /\ ~run.aborted
    /\ Has(run.log, "tempfile") <=> run.tmp_created

C7_Witness ==
    /\ run.tmp_created /\ Has(run.log, "weasyprint:raise")
    /\ Has(run.log, "os.remove") /\ run.tmp_path \notin files

(***************************************************************************)
(* C8.  create_pdf writes 1 + len(slides) pages: the title page, then one  *)
(* page per slide in order; a slide takes one page however many lines it   *)
(* has; the cursor starts at the same top on every slide and ends 14 per   *)
(* wrapped line and 4 per bullet lower; a missing title is "Untitled       *)
(* Slide", missing bullets are no bullets.                                 *)
(***************************************************************************)
RECURSIVE WrappedLines(_)
WrappedLines(bullets) ==
    IF bullets = <<>> THEN 0 ELSE wrap(Head(bullets)) + WrappedLines(Tail(bullets))

C8_OnePagePerSlide ==
    pdf_out.done =>
        LET slides == pdf_in.slides.items
            pages == pdf_out.pages
        IN  /\ ~pdf_out.raised
            /\ Len(pages) = 1 + Len(slides)
            /\ pages[1].kind = "title" /\ pages[1].title = pdf_in.title
            /\ \A i \in 1..Len(slides) :
                  LET s == slides[i]
                      pg == pages[i + 1]
                      bullets == IF s.has_bullets THEN s.bullets ELSE <<>>
                  IN  /\ pg.kind = "slide"
                      /\ pg.title = (IF s.has_title THEN s.title ELSE "Untitled Slide")
                      /\ pg.top = A4_HEIGHT - 129600
                      /\ Len(pg.lines) = WrappedLines(bullets)
                      /\ pg.y = pg.top - 14000 * WrappedLines(bullets) - 4000 * Len(bullets)
                      /\ pg.lines # <<>> => pg.lines[1] = pg.top
                      /\ \A k \in 1..(Len(pg.lines) - 1) :
                            pg.lines[k] - pg.lines[k + 1] \in {14000, 18000}

C8_Witness ==
    /\ pdf_out.done /\ Len(pdf_out.pages) = 3
    /\ pdf_out.pages[2].y < 0
    /\ pdf_out.pages[3].lines # <<>> /\ pdf_out.pages[3].top = pdf_out.pages[2].top

(***************************************************************************)
(* C9.  A click on the ReportLab button when the slide data is blank,      *)
(* invalid JSON or an empty / falsy value only shows an error: create_pdf  *)
(* is not called, no temporary file is created, no download is offered;    *)
(* invalid JSON leaves the slide list empty and shows "Invalid JSON".      *)
(***************************************************************************)
C9_NoSlidesNoExport ==
    /\ (run.click = "reportlab"
        /\ slide_data_raw \in {RAW_BLANK, RAW_SPACES, RAW_QUOTES, RAW_EMPTY_LIST, RAW_NULL}) =>
          /\ Has(run.log, "st.error:no_slides")
          /\ run.calls = <<>> /\ LibraryCalls = 0
          /\ ~run.tmp_created /\ ~Has(run.log, "tempfile") /\ ~Has(run.log, "tempfile:raise")
          /\ ~run.download.offered /\ ~Has(run.log, "st.download_button")
    /\ (run.controls /\ slide_data_raw = RAW_QUOTES) =>
          /\ run.slides_for_pdf = JList(<<>>)
          /\ Has(run.log, "st.error:invalid_json")

C9_Witness ==
    /\ run.click = "reportlab" /\ slide_data_raw = RAW_QUOTES
    /\ Has(run.log, "st.error:no_slides") /\ Has(run.log, "st.error:invalid_json")

(***************************************************************************)
(* C10.  As claimed: a generate click whose call returns stores the result *)
(* even when it is empty, and while the stored HTML is empty every run     *)
(* shows the info hint, no preview and no export controls.                 *)
(***************************************************************************)
EmptyResponse ==
    /\ ~UsesOutputText
    /\ \A i \in 1..Len(run.resp.output) : run.resp.output[i].type # "output_text"

C10_Original ==
    /\ GenerateReturned =>
          /\ Stored /\ StoredHtml = run.html_state
          /\ EmptyResponse => StoredHtml = <<>>
    /\ (Stored /\ StoredHtml = <<>>) =>
          /\ Has(run.log, "st.info")
          /\ ~Has(run.log, "st.html") /\ ~ExportControlsShown

\* C10, amended: a generate click whose call returns stores the result even
\* when it is empty, replacing a stored non-empty HTML by the empty string;
\* while the stored HTML is empty no run shows a preview or export controls,
\* and every run that the API call does not abort shows the info hint.
C10_EmptyResultOverwrites ==
    /\ GenerateReturned =>
          /\ Stored /\ StoredHtml = run.html_state
          /\ EmptyResponse => StoredHtml = <<>>
    /\ (Stored /\ StoredHtml = <<>>) =>
          /\ ~run.aborted => Has(run.log, "st.info")
          /\ ~Has(run.log, "st.html") /\ ~ExportControlsShown

C10_Witness ==
    /\ GenerateReturned /\ EmptyResponse /\ run.resp.output # <<>>
    /\ run.html0 # <<>> /\ Stored /\ StoredHtml = <<>>
    /\ Has(run.log, "st.info")

====
